---------------------------- MODULE Spec2Model ----------------------------
(***************************************************************************)
(* Storage core of RustgresQL: the typed value codec, the slotted page,    *)
(* the catalog, the directory and the B-Tree, each translated from its     *)
(* Rust source.  Byte buffers are sequences of integers 0..255; a Rust     *)
(* index i (0-based) is the TLA+ index i + 1.  A Rust panic is the value   *)
(* ok = FALSE of the operation's result and pc = "panicked" in the state.  *)
(***************************************************************************)
EXTENDS Integers, Sequences, FiniteSets, TLC

VARIABLES
    ENDIANESS,      \* serialization.rs: cfg!(target_endian = "little")
    pc,             \* "ok", "panicked", or the codec's stage
    value,          \* codec: the DataType being encoded
    buffer,         \* codec: serialize's result
    offset,         \* codec: deserialize's &mut offset
    decoded,        \* codec: deserialize's result
    directory,      \* Directory {pages, objects}
    page,           \* Page {header, slots, data}
    data_catalog,   \* DataCatalog {file, tables}
    btree,          \* BTree {root, degree}
    root,           \* main's `let mut root = btree.root.clone()`
    logical,        \* ghost: key -> inserted minus deleted
    nops            \* ghost: operations applied so far

vars == <<ENDIANESS, pc, value, buffer, offset, decoded, directory, page,
          data_catalog, btree, root, logical, nops>>

(***************************************************************************)
(* Generic helpers                                                         *)
(***************************************************************************)
Zeros(n) == [i \in 1..n |-> 0]

RECURSIVE Flatten(_)
Flatten(ss) ==
    IF Len(ss) = 0 THEN <<>>
    ELSE IF Len(ss) = 1 THEN ss[1]
    ELSE LET h == Len(ss) \div 2
         IN  Flatten(SubSeq(ss, 1, h)) \o Flatten(SubSeq(ss, h + 1, Len(ss)))

Reverse(s) == [i \in 1..Len(s) |-> s[Len(s) + 1 - i]]

\* Vec::insert(i, x), Vec::remove(i) with 0-based i (the callers check i).
VecInsert(s, i, x) == SubSeq(s, 1, i) \o <<x>> \o SubSeq(s, i + 1, Len(s))
VecRemove(s, i) == SubSeq(s, 1, i) \o SubSeq(s, i + 2, Len(s))

\* The permutations of a finite set, as sequences.
RECURSIVE Perms(_)
Perms(S) ==
    IF S = {} THEN {<<>>}
    ELSE UNION {{<<x>> \o p : p \in Perms(S \ {x})} : x \in S}

(***************************************************************************)
(* serialization.rs: DataType                                              *)
(***************************************************************************)
MAX_INT4_SIZE == 4
MAX_FLOAT_SIZE == 8
MAX_STR_SIZE == 32
BOOLEAN_SIZE == 1

\* Varchar holds the string's UTF-8 bytes; Float64 holds the 8 bytes of the
\* IEEE-754 bit pattern, most significant first.
Varchar(s) == [type |-> "Varchar", value |-> s]
Int32(n) == [type |-> "Int32", value |-> n]
Float64(bits) == [type |-> "Float64", value |-> bits]
Bool(b) == [type |-> "Bool", value |-> b]
Null == [type |-> "Null", value |-> 0]

F64IsNaN(bits) ==
    /\ bits[1] % 128 = 127
    /\ bits[2] \div 16 = 15
    /\ \/ bits[2] % 16 # 0
       \/ \E i \in 3..8 : bits[i] # 0

F64IsZero(bits) == bits[1] % 128 = 0 /\ \A i \in 2..8 : bits[i] = 0

\* f64's == : NaN equals nothing, +0.0 equals -0.0, otherwise the bits decide.
F64Eq(a, b) ==
    /\ ~F64IsNaN(a)
    /\ ~F64IsNaN(b)
    /\ \/ a = b
       \/ F64IsZero(a) /\ F64IsZero(b)

\* #[derive(PartialEq)] on DataType.
DataTypeEq(a, b) ==
    /\ a.type = b.type
    /\ IF a.type = "Float64" THEN F64Eq(a.value, b.value) ELSE a.value = b.value

as_int_ok(d) == d.type = "Int32"
as_int(d) == d.value

\* i32::to_le_bytes / to_be_bytes (two's complement), kept inside 32 bits.
i32_to_le_bytes(v) ==
    LET w == IF v >= 0 THEN v ELSE (v + 2147483647) + 1
    IN  <<w % 256, (w \div 256) % 256, (w \div 65536) % 256,
          (w \div 16777216) + (IF v < 0 THEN 128 ELSE 0)>>

i32_from_le_bytes(b) ==
    LET low == b[3] * 65536 + b[2] * 256 + b[1]
    IN  IF b[4] >= 128
        THEN (((b[4] - 128) * 16777216 + low) - 2147483647) - 1
        ELSE b[4] * 16777216 + low

i32_to_bytes(v) ==
    IF ENDIANESS THEN i32_to_le_bytes(v) ELSE Reverse(i32_to_le_bytes(v))

i32_from_bytes(b) ==
    IF ENDIANESS THEN i32_from_le_bytes(b) ELSE i32_from_le_bytes(Reverse(b))

f64_to_bytes(bits) == IF ENDIANESS THEN Reverse(bits) ELSE bits

\* f64::from_be_bytes under both layouts.
f64_from_bytes_be_only(b) == b

f64_from_bytes(b) == IF ENDIANESS THEN Reverse(b) ELSE b

\* `value.len() as u8`
VarcharLenU8(s) == Len(s) % 256

\* DataType::serialize panics only on a Varchar whose u8 length exceeds 32.
DataType_serialize_ok(d) ==
    d.type = "Varchar" => VarcharLenU8(d.value) <= MAX_STR_SIZE

DataType_serialize(d) ==
    CASE d.type = "Varchar" ->
            <<1, VarcharLenU8(d.value)>> \o d.value
                \o Zeros(MAX_STR_SIZE - VarcharLenU8(d.value))
      [] d.type = "Int32" -> <<2>> \o i32_to_bytes(d.value)
      [] d.type = "Float64" -> <<3>> \o f64_to_bytes(d.value)
      [] d.type = "Bool" -> <<4, IF d.value THEN 1 ELSE 0>>
      [] OTHER -> <<0, 0>>

\* A decoding result: the value, the advanced offset, and whether it returned.
Decoded(v, off) == [ok |-> TRUE, value |-> v, offset |-> off]
DecodePanic(off) == [ok |-> FALSE, value |-> Null, offset |-> off]

\* DataType::deserialize(buffer, &mut offset); an index or a slice outside
\* the buffer panics.
DataType_deserialize(buf, off) ==
    IF off >= Len(buf) THEN DecodePanic(off)
    ELSE
    LET data_type == buf[off + 1]
        o1 == off + 1
    IN  CASE data_type = 1 ->
                IF o1 >= Len(buf) THEN DecodePanic(o1)
                ELSE LET len == buf[o1 + 1]
                         o2 == o1 + 1
                     IN  IF o2 + len > Len(buf) THEN DecodePanic(o2)
                         ELSE Decoded(Varchar(SubSeq(buf, o2 + 1, o2 + len)),
                                      o2 + MAX_STR_SIZE)
          [] data_type = 2 ->
                IF o1 + MAX_INT4_SIZE > Len(buf) THEN DecodePanic(o1)
                ELSE Decoded(Int32(i32_from_bytes(
                                 SubSeq(buf, o1 + 1, o1 + MAX_INT4_SIZE))),
                             o1 + MAX_INT4_SIZE)
          [] data_type = 3 ->
                IF o1 + MAX_FLOAT_SIZE > Len(buf) THEN DecodePanic(o1)
                ELSE Decoded(Float64(f64_from_bytes(
                                 SubSeq(buf, o1 + 1, o1 + MAX_FLOAT_SIZE))),
                             o1 + MAX_FLOAT_SIZE)
          [] data_type = 4 ->
                IF o1 >= Len(buf) THEN DecodePanic(o1)
                ELSE Decoded(Bool(buf[o1 + 1] # 0), o1 + BOOLEAN_SIZE)
          [] OTHER -> Decoded(Null, o1 + 1)

(***************************************************************************)
(* serialization.rs: the Serializable trait.  T names the implementing     *)
(* type; Serialize / Deserialize dispatch to its impl (defined below, once *)
(* every impl is).                                                         *)
(***************************************************************************)
RECURSIVE SerializeOk(_, _), Serialize(_, _), Deserialize(_, _, _)

serialize_list_ok(T, data) == \A i \in 1..Len(data) : SerializeOk(T, data[i])

serialize_list(T, data) ==
    DataType_serialize(Int32(Len(data)))
        \o Flatten([i \in 1..Len(data) |-> Serialize(T, data[i])])

\* VecDeque iterates front to back: the same wire form as a list.
serialize_vecdeque_ok(T, data) == serialize_list_ok(T, data)

serialize_vecdeque(T, data) == serialize_list(T, data)

\* n iterations of `result.push(T::deserialize(buffer, offset))` from
\* offset off: the first half of the iterations, then the rest from the
\* offset the first half reached.
RECURSIVE deserialize_items(_, _, _, _)
deserialize_items(T, buf, off, n) ==
    IF n = 0 THEN Decoded(<<>>, off)
    ELSE IF n = 1
    THEN LET item == Deserialize(T, buf, off)
         IN  IF item.ok THEN Decoded(<<item.value>>, item.offset)
             ELSE DecodePanic(item.offset)
    ELSE LET first == deserialize_items(T, buf, off, n \div 2)
         IN  IF ~first.ok THEN first
             ELSE LET rest == deserialize_items(T, buf, first.offset,
                                                n - n \div 2)
                  IN  IF ~rest.ok THEN rest
                      ELSE Decoded(first.value \o rest.value, rest.offset)

\* `for _ in 0..len.as_int()`: an empty range when len is not positive.
deserialize_list(T, buf, off) ==
    LET len == DataType_deserialize(buf, off)
    IN  IF ~len.ok \/ ~as_int_ok(len.value) THEN DecodePanic(len.offset)
        ELSE deserialize_items(T, buf, len.offset,
                               IF as_int(len.value) > 0 THEN as_int(len.value)
                               ELSE 0)

\* The println! slices buffer[*offset..*offset + 10] before anything else.
deserialize_vecdeque(T, buf, off) ==
    IF off + 10 > Len(buf) THEN DecodePanic(off)
    ELSE deserialize_list(T, buf, off)

\* A HashMap<DataType, T> is a function on its key set; `order` is the order
\* in which this run's iteration visits the keys.
IterationOrders(data) == Perms(DOMAIN data)

serialize_hashmap_ok(T, data) ==
    \A k \in DOMAIN data : DataType_serialize_ok(k) /\ SerializeOk(T, data[k])

serialize_hashmap(T, data, order) ==
    DataType_serialize(Int32(Len(order)))
        \o Flatten([i \in 1..Len(order) |->
                DataType_serialize(order[i]) \o Serialize(T, data[order[i]])])

\* HashMap::insert: a key already present has its value replaced.
HashMapInsert(m, k, v) ==
    [x \in DOMAIN m \cup {k} |-> IF x = k THEN v ELSE m[x]]

\* The loop of deserialize_hashmap, one iteration short.
deserialize_hashmap_short(T, buf, off) ==
    LET len == DataType_deserialize(buf, off)
        n == IF as_int(len.value) > 1 THEN as_int(len.value) - 1 ELSE 0
        st[i \in 0..n] ==
            IF i = 0 THEN Decoded(<<>>, len.offset)
            ELSE LET key == DataType_deserialize(buf, st[i - 1].offset)
                     val == Deserialize(T, buf, key.offset)
                 IN  Decoded(HashMapInsert(st[i - 1].value,
                                 key.value, val.value), val.offset)
    IN  st[n]

deserialize_hashmap(T, buf, off) ==
    LET len == DataType_deserialize(buf, off)
    IN  IF ~len.ok \/ ~as_int_ok(len.value) THEN DecodePanic(len.offset)
        ELSE
        LET n == IF as_int(len.value) > 0 THEN as_int(len.value) ELSE 0
            st[i \in 0..n] ==
                IF i = 0 THEN Decoded(<<>>, len.offset)
                ELSE LET prev == st[i - 1]
                     IN  IF ~prev.ok THEN prev
                         ELSE
                         LET key == DataType_deserialize(buf, prev.offset)
                         IN  IF ~key.ok THEN DecodePanic(key.offset)
                             ELSE
                             LET val == Deserialize(T, buf, key.offset)
                             IN  IF ~val.ok THEN DecodePanic(val.offset)
                                 ELSE Decoded(HashMapInsert(prev.value,
                                                  key.value, val.value),
                                              val.offset)
        IN  st[n]

\* n consecutive DataType::deserialize calls (a struct's scalar fields).
DataType_deserialize_n(buf, off, n) ==
    LET st[i \in 0..n] ==
            IF i = 0 THEN Decoded(<<>>, off)
            ELSE LET prev == st[i - 1]
                 IN  IF ~prev.ok THEN prev
                     ELSE LET item == DataType_deserialize(buf, prev.offset)
                          IN  IF ~item.ok THEN DecodePanic(item.offset)
                              ELSE Decoded(Append(prev.value, item.value),
                                           item.offset)
    IN  st[n]

(***************************************************************************)
(* catalog.rs                                                              *)
(***************************************************************************)
Constraint_serialize_ok(c) ==
    /\ DataType_serialize_ok(c.oid)
    /\ DataType_serialize_ok(c.name)
    /\ DataType_serialize_ok(c.dtype)

Constraint_serialize(c) ==
    DataType_serialize(c.oid) \o DataType_serialize(c.name)
        \o DataType_serialize(c.dtype)

Constraint_deserialize(buf, off) ==
    LET f == DataType_deserialize_n(buf, off, 3)
    IN  IF ~f.ok THEN f
        ELSE Decoded([oid |-> f.value[1], name |-> f.value[2],
                      dtype |-> f.value[3]], f.offset)

Column_serialize_ok(c) ==
    /\ DataType_serialize_ok(c.oid)
    /\ DataType_serialize_ok(c.name)
    /\ DataType_serialize_ok(c.max_value)
    /\ DataType_serialize_ok(c.min_value)
    /\ serialize_list_ok("Constraint", c.constraints)

Column_serialize(c) ==
    DataType_serialize(c.oid) \o DataType_serialize(c.name)
        \o DataType_serialize(c.max_value) \o DataType_serialize(c.min_value)
        \o serialize_list("Constraint", c.constraints)

Column_deserialize(buf, off) ==
    LET f == DataType_deserialize_n(buf, off, 4)
    IN  IF ~f.ok THEN f
        ELSE LET constraints == deserialize_list("Constraint", buf, f.offset)
             IN  IF ~constraints.ok THEN constraints
                 ELSE Decoded([oid |-> f.value[1], name |-> f.value[2],
                               max_value |-> f.value[3],
                               min_value |-> f.value[4],
                               constraints |-> constraints.value],
                              constraints.offset)

Index_serialize_ok(x) ==
    /\ DataType_serialize_ok(x.oid)
    /\ DataType_serialize_ok(x.name)
    /\ serialize_list_ok("DataType", x.columns)
    /\ DataType_serialize_ok(x.unique)

Index_serialize(x) ==
    DataType_serialize(x.oid) \o DataType_serialize(x.name)
        \o serialize_list("DataType", x.columns)
        \o DataType_serialize(x.unique)

Index_deserialize(buf, off) ==
    LET f == DataType_deserialize_n(buf, off, 2)
    IN  IF ~f.ok THEN f
        ELSE
        LET columns == deserialize_list("DataType", buf, f.offset)
        IN  IF ~columns.ok THEN columns
            ELSE
            LET unique == DataType_deserialize(buf, columns.offset)
            IN  IF ~unique.ok THEN unique
                ELSE Decoded([oid |-> f.value[1], name |-> f.value[2],
                              columns |-> columns.value,
                              unique |-> unique.value], unique.offset)

Table_serialize_ok(t) ==
    /\ DataType_serialize_ok(t.oid)
    /\ DataType_serialize_ok(t.name)
    /\ serialize_list_ok("Column", t.columns)
    /\ serialize_list_ok("Index", t.indexes)

\* Table::serialize with the two lists written in the other order.
Table_serialize_indexes_first(t) ==
    DataType_serialize(t.oid) \o DataType_serialize(t.name)
        \o serialize_list("Index", t.indexes)
        \o serialize_list("Column", t.columns)

Table_serialize(t) ==
    DataType_serialize(t.oid) \o DataType_serialize(t.name)
        \o serialize_list("Column", t.columns)
        \o serialize_list("Index", t.indexes)

Table_deserialize(buf, off) ==
    LET f == DataType_deserialize_n(buf, off, 2)
    IN  IF ~f.ok THEN f
        ELSE
        LET columns == deserialize_list("Column", buf, f.offset)
        IN  IF ~columns.ok THEN columns
            ELSE
            LET indexes == deserialize_list("Index", buf, columns.offset)
            IN  IF ~indexes.ok THEN indexes
                ELSE Decoded([oid |-> f.value[1], name |-> f.value[2],
                              columns |-> columns.value,
                              indexes |-> indexes.value], indexes.offset)

DataCatalog_new(path) == [file |-> path, tables |-> <<>>]

add_table(catalog, table) ==
    [catalog EXCEPT !.tables = Append(@, table)]

DataCatalog_serialize_ok(catalog) == serialize_list_ok("Table", catalog.tables)

DataCatalog_serialize(catalog) == serialize_list("Table", catalog.tables)

DataCatalog_deserialize(buf, off) ==
    LET tables == deserialize_list("Table", buf, off)
    IN  IF ~tables.ok THEN tables
        ELSE Decoded([file |-> "data/catalog.db", tables |-> tables.value],
                     tables.offset)

(***************************************************************************)
(* page.rs                                                                 *)
(***************************************************************************)
MAX_PAGE_SIZE == 4096

\* Option<T>.
None == [some |-> FALSE, v |-> 0]
Some(x) == [some |-> TRUE, v |-> x]
unwrap_or(opt, default) == IF opt.some THEN opt.v ELSE default

STR_DATA == <<68, 65, 84, 65>>          \* "DATA"
STR_INDEX == <<73, 78, 68, 69, 88>>     \* "INDEX"

PageType_Data(d) == [variant |-> "Data", inner |-> d]
PageType_Index(d) == [variant |-> "Index", inner |-> d]

PageType_serialize_ok(pt) == DataType_serialize_ok(pt.inner)

PageType_serialize(pt) == DataType_serialize(pt.inner)

\* as_string() of a non-Varchar is its printed value, never DATA or INDEX.
PageType_deserialize(buf, off) ==
    LET d == DataType_deserialize(buf, off)
    IN  IF ~d.ok THEN d
        ELSE IF d.value.type = "Varchar" /\ d.value.value = STR_DATA
             THEN Decoded(PageType_Data(d.value), d.offset)
        ELSE IF d.value.type = "Varchar" /\ d.value.value = STR_INDEX
             THEN Decoded(PageType_Index(d.value), d.offset)
        ELSE DecodePanic(d.offset)

Header_new(page_type, page_number, next_page, free_space) ==
    [page_type |-> page_type,
     free_space |-> unwrap_or(free_space, Int32(MAX_PAGE_SIZE)),
     page_number |-> page_number,
     next_page |-> next_page,
     last_slot |-> Int32(0),
     offset |-> Int32(MAX_PAGE_SIZE - 1)]

Header_serialize_ok(h) ==
    /\ PageType_serialize_ok(h.page_type)
    /\ DataType_serialize_ok(h.free_space)
    /\ DataType_serialize_ok(h.page_number)
    /\ DataType_serialize_ok(h.next_page)

Header_serialize(h) ==
    PageType_serialize(h.page_type) \o DataType_serialize(h.free_space)
        \o DataType_serialize(h.page_number)
        \o DataType_serialize(h.next_page)

Header_deserialize(buf, off) ==
    LET page_type == PageType_deserialize(buf, off)
    IN  IF ~page_type.ok THEN page_type
        ELSE LET f == DataType_deserialize_n(buf, page_type.offset, 3)
             IN  IF ~f.ok THEN f
                 ELSE Decoded(Header_new(page_type.value, f.value[2],
                                         f.value[3], Some(f.value[1])),
                              f.offset)

Slot_new(tuple_id, tuple_offset, length) ==
    [tuple_id |-> tuple_id, offset |-> tuple_offset, length |-> length]

Slot_serialize_ok(slot) ==
    /\ DataType_serialize_ok(slot.tuple_id)
    /\ DataType_serialize_ok(slot.offset)
    /\ DataType_serialize_ok(slot.length)

Slot_serialize(slot) ==
    DataType_serialize(slot.tuple_id) \o DataType_serialize(slot.offset)
        \o DataType_serialize(slot.length)

Slot_deserialize(buf, off) ==
    LET f == DataType_deserialize_n(buf, off, 3)
    IN  IF ~f.ok THEN f
        ELSE Decoded(Slot_new(f.value[1], f.value[2], f.value[3]), f.offset)

Tuple_new(tuple_id, data) == [tuple_id |-> tuple_id, data |-> data]

Tuple_serialize_ok(tuple) ==
    /\ DataType_serialize_ok(tuple.tuple_id)
    /\ serialize_list_ok("DataType", tuple.data)

Tuple_serialize(tuple) ==
    DataType_serialize(tuple.tuple_id) \o serialize_list("DataType", tuple.data)

Tuple_deserialize(buf, off) ==
    LET tuple_id == DataType_deserialize(buf, off)
    IN  IF ~tuple_id.ok THEN tuple_id
        ELSE LET data == deserialize_list("DataType", buf, tuple_id.offset)
             IN  IF ~data.ok THEN data
                 ELSE Decoded(Tuple_new(tuple_id.value, data.value),
                              data.offset)

Page_new(header, slots, data) ==
    [header |-> header,
     slots |-> unwrap_or(slots, <<>>),
     data |-> unwrap_or(data, <<>>)]

get_free_space(p) == as_int(p.header.free_space)

\* reduce_free_space asserting against the page size instead of the free
\* space.
reduce_free_space_ok_page_size(p, reduce_by) == reduce_by <= MAX_PAGE_SIZE

\* The assert! of reduce_free_space.
reduce_free_space_ok(p, reduce_by) == reduce_by <= get_free_space(p)

reduce_free_space(p, reduce_by) ==
    [p EXCEPT !.header.free_space = Int32(get_free_space(p) - reduce_by)]

\* append_tuple without `self.header.last_slot = DataType::Int32(tuple_id)`.
append_tuple_stale_last_slot(p, tuple_data) ==
    LET tuple_id == as_int(p.header.last_slot) + 1
        tuple == Tuple_new(Int32(tuple_id), tuple_data)
        first == as_int(p.header.last_slot) = 0
        raw_size == Len(Tuple_serialize(tuple))
        tuple_size == IF first THEN raw_size + 5 ELSE raw_size
        tuple_offset == IF first THEN (as_int(p.header.offset) - raw_size) - 5
                        ELSE as_int(p.header.offset) - raw_size
        slot == Slot_new(Int32(tuple_id), Int32(tuple_offset),
                         Int32(tuple_size))
        slot_size == Len(Slot_serialize(slot))
        p1 == [p EXCEPT !.header.offset = Int32(tuple_offset)]
        p2 == reduce_free_space(p1, slot_size)
        p3 == [p2 EXCEPT !.slots = Append(@, slot)]
        p4 == reduce_free_space(p3, tuple_size)
        p5 == [p4 EXCEPT !.data = <<tuple>> \o @]
    IN  IF ~Tuple_serialize_ok(tuple) THEN [ok |-> FALSE, page |-> p]
        ELSE IF ~reduce_free_space_ok(p1, slot_size)
             THEN [ok |-> FALSE, page |-> p1]
        ELSE IF ~reduce_free_space_ok(p3, tuple_size)
             THEN [ok |-> FALSE, page |-> p3]
        ELSE [ok |-> TRUE, page |-> p5]

\* Page::append_tuple: the page as the call leaves it, and whether it
\* returned.  The header is updated before the first assert!, the slot is
\* pushed before the second.
append_tuple(p, tuple_data) ==
    LET tuple_id == as_int(p.header.last_slot) + 1
        tuple == Tuple_new(Int32(tuple_id), tuple_data)
        first == as_int(p.header.last_slot) = 0
        raw_size == Len(Tuple_serialize(tuple))
        tuple_size == IF first THEN raw_size + 5 ELSE raw_size
        tuple_offset == IF first THEN (as_int(p.header.offset) - raw_size) - 5
                        ELSE as_int(p.header.offset) - raw_size
        slot == Slot_new(Int32(tuple_id), Int32(tuple_offset),
                         Int32(tuple_size))
        slot_size == Len(Slot_serialize(slot))
        p1 == [p EXCEPT !.header.last_slot = Int32(tuple_id),
                        !.header.offset = Int32(tuple_offset)]
        p2 == reduce_free_space(p1, slot_size)
        p3 == [p2 EXCEPT !.slots = Append(@, slot)]
        p4 == reduce_free_space(p3, tuple_size)
        p5 == [p4 EXCEPT !.data = <<tuple>> \o @]
    IN  IF ~Tuple_serialize_ok(tuple) THEN [ok |-> FALSE, page |-> p]
        ELSE IF ~reduce_free_space_ok(p1, slot_size)
             THEN [ok |-> FALSE, page |-> p1]
        ELSE IF ~reduce_free_space_ok(p3, tuple_size)
             THEN [ok |-> FALSE, page |-> p3]
        ELSE [ok |-> TRUE, page |-> p5]

\* Vec::splice(start..end, repl): the range must lie inside the vector.
splice_ok(v, start, end) == 0 <= start /\ start <= end /\ end <= Len(v)

splice(v, start, end, repl) ==
    SubSeq(v, 1, start) \o repl \o SubSeq(v, end + 1, Len(v))

\* Page::serialize.  `offset.as_int() as usize` of a negative offset is a
\* huge index, which splice_ok rejects like any other start beyond the end.
Page_serialize_ok(p) ==
    LET serialized_header == Header_serialize(p.header)
        slot_offset == Len(serialized_header)
        slots_size == Len(serialize_vecdeque("Slot", p.slots))
        tuple_offset == as_int(p.header.offset)
        tuples_size == Len(serialize_vecdeque("Tuple", p.data))
    IN  /\ Header_serialize_ok(p.header)
        /\ splice_ok(Zeros(MAX_PAGE_SIZE), 0, slot_offset)
        /\ serialize_vecdeque_ok("Slot", p.slots)
        /\ splice_ok(Zeros(MAX_PAGE_SIZE), slot_offset, slot_offset + slots_size)
        /\ serialize_vecdeque_ok("Tuple", p.data)
        /\ tuples_size <= (MAX_PAGE_SIZE - slot_offset) - slots_size
        /\ splice_ok(Zeros(MAX_PAGE_SIZE), tuple_offset,
                     tuple_offset + tuples_size)

Page_serialize(p) ==
    LET serialized_header == Header_serialize(p.header)
        slot_offset == Len(serialized_header)
        serialized_slots == serialize_vecdeque("Slot", p.slots)
        slots_size == Len(serialized_slots)
        serialized_tuples == serialize_vecdeque("Tuple", p.data)
        tuple_offset == as_int(p.header.offset)
        tuples_size == Len(serialized_tuples)
        s0 == Zeros(MAX_PAGE_SIZE)
        s1 == splice(s0, 0, slot_offset, serialized_header)
        s2 == splice(s1, slot_offset, slot_offset + slots_size,
                     serialized_slots)
    IN  splice(s2, tuple_offset, tuple_offset + tuples_size, serialized_tuples)

\* Page::deserialize: slots.back().unwrap() panics on an empty slot deque;
\* the tuples are read from the last slot's offset.
Page_deserialize(buf, off) ==
    LET header == Header_deserialize(buf, off)
    IN  IF ~header.ok THEN header
        ELSE
        LET slots == deserialize_vecdeque("Slot", buf, header.offset)
        IN  IF ~slots.ok THEN slots
            ELSE IF slots.value = <<>> THEN DecodePanic(slots.offset)
            ELSE
            LET back == slots.value[Len(slots.value)]
            IN  IF ~as_int_ok(back.offset) \/ as_int(back.offset) < 0
                THEN DecodePanic(slots.offset)
                ELSE
                LET tuples == deserialize_vecdeque("Tuple", buf,
                                                   as_int(back.offset))
                IN  IF ~tuples.ok THEN DecodePanic(slots.offset)
                    ELSE Decoded(Page_new(header.value, Some(slots.value),
                                          Some(tuples.value)), slots.offset)

(***************************************************************************)
(* The impls of Serializable, by type.                                     *)
(***************************************************************************)
SerializeOk(T, x) ==
    CASE T = "DataType" -> DataType_serialize_ok(x)
      [] T = "Constraint" -> Constraint_serialize_ok(x)
      [] T = "Column" -> Column_serialize_ok(x)
      [] T = "Index" -> Index_serialize_ok(x)
      [] T = "Table" -> Table_serialize_ok(x)
      [] T = "Slot" -> Slot_serialize_ok(x)
      [] T = "Tuple" -> Tuple_serialize_ok(x)

Serialize(T, x) ==
    CASE T = "DataType" -> DataType_serialize(x)
      [] T = "Constraint" -> Constraint_serialize(x)
      [] T = "Column" -> Column_serialize(x)
      [] T = "Index" -> Index_serialize(x)
      [] T = "Table" -> Table_serialize(x)
      [] T = "Slot" -> Slot_serialize(x)
      [] T = "Tuple" -> Tuple_serialize(x)

Deserialize(T, buf, off) ==
    CASE T = "DataType" -> DataType_deserialize(buf, off)
      [] T = "Constraint" -> Constraint_deserialize(buf, off)
      [] T = "Column" -> Column_deserialize(buf, off)
      [] T = "Index" -> Index_deserialize(buf, off)
      [] T = "Table" -> Table_deserialize(buf, off)
      [] T = "Slot" -> Slot_deserialize(buf, off)
      [] T = "Tuple" -> Tuple_deserialize(buf, off)

(***************************************************************************)
(* directory.rs                                                            *)
(***************************************************************************)
\* HashMap::remove: removing an absent key changes nothing.
HashMapRemove(m, k) ==
    IF DOMAIN m \ {k} = {} THEN <<>> ELSE [x \in DOMAIN m \ {k} |-> m[x]]

Directory_new(pages, objects) ==
    [pages |-> unwrap_or(pages, <<>>),
     objects |-> unwrap_or(objects, <<>>),
     file |-> "data/directory.db"]

add_page(d, page_id, path) ==
    [d EXCEPT !.pages = HashMapInsert(@, page_id, path)]

\* add_object without its assert!.
add_object_ok_unchecked(d, object_id, page_id) == TRUE

\* The assert! of add_object.
add_object_ok(d, object_id, page_id) == page_id \in DOMAIN d.pages

add_object(d, object_id, page_id) ==
    [d EXCEPT !.objects = HashMapInsert(@, object_id, page_id)]

remove_object(d, object_id) ==
    [d EXCEPT !.objects = HashMapRemove(@, object_id)]

\* remove_page that also drops the objects stored in the page.
remove_page_cascade(d, page_id) ==
    [pages |-> HashMapRemove(d.pages, page_id),
     objects |-> LET keep == {o \in DOMAIN d.objects : d.objects[o] # page_id}
                 IN  IF keep = {} THEN <<>>
                     ELSE [o \in keep |-> d.objects[o]],
     file |-> d.file]

remove_page(d, page_id) ==
    [d EXCEPT !.pages = HashMapRemove(@, page_id)]

get_page(d, page_id) ==
    IF page_id \in DOMAIN d.pages THEN Some(d.pages[page_id]) ELSE None

get_objects_for_page(d, page_id) ==
    {k \in DOMAIN d.objects : d.objects[k] = page_id}

Directory_serialize_ok(d) ==
    /\ serialize_hashmap_ok("DataType", d.pages)
    /\ serialize_hashmap_ok("DataType", d.objects)

\* The two HashMaps are iterated in the orders page_order, object_order.
Directory_serialize(d, page_order, object_order) ==
    serialize_hashmap("DataType", d.pages, page_order)
        \o serialize_hashmap("DataType", d.objects, object_order)

Directory_deserialize(buf, off) ==
    LET pages == deserialize_hashmap("DataType", buf, off)
    IN  IF ~pages.ok THEN pages
        ELSE LET objects == deserialize_hashmap("DataType", buf, pages.offset)
             IN  IF ~objects.ok THEN objects
                 ELSE Decoded([pages |-> pages.value,
                               objects |-> objects.value,
                               file |-> "data/directory.db"], objects.offset)

(***************************************************************************)
(* main.rs: the B-Tree.  A node is [entries, children, is_leaf, is_root],  *)
(* an entry [key, value].  An operation on `u: &mut BTreeNode` returns the *)
(* node as the call leaves it and ok = FALSE when it panicked.             *)
(***************************************************************************)
Degree == 2

Entry_new(key, val) == [key |-> key, value |-> val]

BTreeNode_new(entries, children, is_leaf, is_root) ==
    [entries |-> unwrap_or(entries, <<>>),
     children |-> unwrap_or(children, <<>>),
     is_leaf |-> is_leaf,
     is_root |-> is_root]

is_full(u, degree) == Len(u.entries) = 2 * degree - 1

is_underflow(u, degree) == Len(u.entries) < degree - 1

BTree_new(r, degree) ==
    [root |-> unwrap_or(r, BTreeNode_new(None, None, TRUE, TRUE)),
     degree |-> degree]

\* `while i < u.entries.len() && key > u.entries[i].key { i += 1 }`
ScanGreater(entries, key) ==
    CHOOSE i \in 0..Len(entries) :
        /\ \A m \in 1..i : key > entries[m].key
        /\ i = Len(entries) \/ ~(key > entries[i + 1].key)

\* `while i < self.entries.len() && key < self.entries[i].key { i += 1 }`
ScanLess(entries, key) ==
    CHOOSE i \in 0..Len(entries) :
        /\ \A m \in 1..i : key < entries[m].key
        /\ i = Len(entries) \/ ~(key < entries[i + 1].key)

\* &self.entries[i - 1]: i = 0 underflows (a panic, or an index past the end).
get_predecessor(u, key) ==
    LET i == ScanLess(u.entries, key)
    IN  IF i = 0 THEN [ok |-> FALSE, entry |-> Entry_new(0, 0)]
        ELSE [ok |-> TRUE, entry |-> u.entries[i]]

\* &self.entries[i]
get_successor(u, key) ==
    LET i == ScanLess(u.entries, key)
    IN  IF i >= Len(u.entries) THEN [ok |-> FALSE, entry |-> Entry_new(0, 0)]
        ELSE [ok |-> TRUE, entry |-> u.entries[i + 1]]

\* search without the recursive call into children[i].
search_no_descent(u, key) ==
    LET i == ScanGreater(u.entries, key)
    IN  IF i < Len(u.entries) /\ key = u.entries[i + 1].key
        THEN [ok |-> TRUE, result |-> Some(u.entries[i + 1])]
        ELSE [ok |-> TRUE, result |-> None]

\* BTree::search: result is the Option the call returns.
RECURSIVE search(_, _)
search(u, key) ==
    LET i == ScanGreater(u.entries, key)
    IN  IF i < Len(u.entries) /\ key = u.entries[i + 1].key
        THEN [ok |-> TRUE, result |-> Some(u.entries[i + 1])]
        ELSE IF u.is_leaf THEN [ok |-> TRUE, result |-> None]
        ELSE IF i >= Len(u.children) THEN [ok |-> FALSE, result |-> None]
        ELSE search(u.children[i + 1], key)

\* BTree::split_child: z is a clone of children[i], so the truncation of z
\* at the end never reaches children[i].
split_child(u, i, t) ==
    IF i >= Len(u.children) THEN [ok |-> FALSE, u |-> u]
    ELSE
    LET z == u.children[i + 1]
    IN  IF t > Len(z.entries) \/ (~z.is_leaf /\ t > Len(z.children))
        THEN [ok |-> FALSE, u |-> u]
        ELSE
        LET new == [entries |-> SubSeq(z.entries, t + 1, Len(z.entries)),
                    children |-> IF z.is_leaf THEN <<>>
                                 ELSE SubSeq(z.children, t + 1, Len(z.children)),
                    is_leaf |-> z.is_leaf,
                    is_root |-> FALSE]
            u1 == [u EXCEPT !.children = VecInsert(@, i + 1, new)]
        IN  IF i > Len(u.entries) THEN [ok |-> FALSE, u |-> u1]
            ELSE [ok |-> TRUE,
                  u |-> [u1 EXCEPT !.entries = VecInsert(@, i, z.entries[t])]]

\* BTree::insert_non_full: the recursive call sits inside the branch taken
\* only when children[i] is full.
RECURSIVE insert_non_full(_, _, _, _)
insert_non_full(u, key, val, t) ==
    LET i == ScanGreater(u.entries, key)
    IN  IF u.is_leaf
        THEN [ok |-> TRUE,
              u |-> [u EXCEPT !.entries = VecInsert(@, i, Entry_new(key, val))]]
        ELSE IF i >= Len(u.children) THEN [ok |-> FALSE, u |-> u]
        ELSE IF is_full(u.children[i + 1], t)
        THEN LET s == split_child(u, i, t)
             IN  IF ~s.ok THEN s
                 ELSE
                 LET i2 == IF key > s.u.entries[i + 1].key THEN i + 1 ELSE i
                     r == insert_non_full(s.u.children[i2 + 1], key, val, t)
                 IN  [ok |-> r.ok,
                      u |-> [s.u EXCEPT !.children[i2 + 1] = r.u]]
        ELSE [ok |-> TRUE, u |-> u]

\* BTree::split_root: returns the new node; self.root is not assigned.
split_root(self) ==
    LET new == BTreeNode_new(None, Some(<<self.root>>), FALSE, FALSE)
    IN  split_child(new, 0, self.degree)

\* merge_children without `u.children[i].entries.push(median_entry)`.
merge_children_drop_median(u, i) ==
    IF i >= Len(u.entries) \/ i + 1 >= Len(u.children)
    THEN [ok |-> FALSE, u |-> u]
    ELSE
    LET right == u.children[i + 2]
        u1 == [u EXCEPT !.entries = VecRemove(@, i),
                        !.children[i + 1].entries = @ \o right.entries]
        u2 == IF ~u1.children[i + 1].is_leaf
              THEN [u1 EXCEPT !.children[i + 1].children =
                                  @ \o right.children]
              ELSE u1
    IN  [ok |-> TRUE, u |-> [u2 EXCEPT !.children = VecRemove(@, i + 1)]]

\* BTree::merge_children
merge_children(u, i) ==
    IF i >= Len(u.entries) THEN [ok |-> FALSE, u |-> u]
    ELSE IF i >= Len(u.children)
    THEN [ok |-> FALSE, u |-> [u EXCEPT !.entries = VecRemove(@, i)]]
    ELSE
    LET median_entry == u.entries[i + 1]
        u1 == [u EXCEPT !.entries = VecRemove(@, i),
                        !.children[i + 1].entries = Append(@, median_entry)]
    IN  IF i + 1 >= Len(u.children) THEN [ok |-> FALSE, u |-> u1]
        ELSE
        LET right == u1.children[i + 2]
            u2 == [u1 EXCEPT !.children[i + 1].entries = @ \o right.entries]
            u3 == IF ~u2.children[i + 1].is_leaf
                  THEN [u2 EXCEPT !.children[i + 1].children =
                                      @ \o right.children]
                  ELSE u2
        IN  [ok |-> TRUE, u |-> [u3 EXCEPT !.children = VecRemove(@, i + 1)]]

\* A call of delete: the node and the tree (self) as it leaves them, and
\* how it ended: it returned, it reached panic!("Key not found in the
\* B-Tree"), or an index or an unwrap panicked.
Returned(self, u) ==
    [ok |-> TRUE, self |-> self, u |-> u, why |-> "returned"]
Panicked(self, u) ==
    [ok |-> FALSE, self |-> self, u |-> u, why |-> "index"]
KeyNotFound(self, u) ==
    [ok |-> FALSE, self |-> self, u |-> u, why |-> "key not found"]

\* `if u.is_root && u.entries.len() == 0 { self.root = u.children.remove(0); }`
CollapseRoot(self, u) ==
    IF u.is_root /\ Len(u.entries) = 0
    THEN IF Len(u.children) = 0 THEN Panicked(self, u)
         ELSE Returned([self EXCEPT !.root = u.children[1]],
                       [u EXCEPT !.children = VecRemove(@, 0)])
    ELSE Returned(self, u)

\* BTree::delete
RECURSIVE delete(_, _, _)
delete(self, u, key) ==
    LET t == self.degree
        i == ScanGreater(u.entries, key)
        \* self.delete(&mut u.children[c], key2), then `then` on the node
        Descend(s, w, c, key2) ==
            IF c >= Len(w.children) THEN Panicked(s, w)
            ELSE LET r == delete(s, w.children[c + 1], key2)
                 IN  [ok |-> r.ok, self |-> r.self,
                      u |-> [w EXCEPT !.children[c + 1] = r.u],
                      why |-> r.why]
        \* merge_children(u, m), the root collapse, delete in children[c]
        MergeThenDescend(m, c) ==
            LET g == merge_children(u, m)
            IN  IF ~g.ok THEN Panicked(self, g.u)
                ELSE LET k == CollapseRoot(self, g.u)
                     IN  IF ~k.ok THEN k
                         ELSE Descend(k.self, k.u, c, key)
    IN
    IF u.is_leaf
    THEN \* Case 1
         IF i < Len(u.entries) /\ key = u.entries[i + 1].key
         THEN Returned(self, [u EXCEPT !.entries = VecRemove(@, i)])
         ELSE KeyNotFound(self, u)
    ELSE IF i < Len(u.entries) /\ key = u.entries[i + 1].key
    THEN \* Case 2
         IF i >= Len(u.children) THEN Panicked(self, u)
         ELSE IF Len(u.children[i + 1].entries) >= t
         THEN \* Case 2a
              LET pred == get_predecessor(u.children[i + 1], key)
              IN  IF ~pred.ok THEN Panicked(self, u)
                  ELSE LET r == Descend(self, u, i, pred.entry.key)
                       IN  IF ~r.ok THEN r
                           ELSE Returned(r.self,
                                    [r.u EXCEPT !.entries[i + 1] = pred.entry])
         ELSE IF i + 1 >= Len(u.children) THEN Panicked(self, u)
         ELSE IF Len(u.children[i + 2].entries) >= t
         THEN \* Case 2b
              LET succ == get_successor(u.children[i + 2], key)
              IN  IF ~succ.ok THEN Panicked(self, u)
                  ELSE LET r == Descend(self, u, i + 1, succ.entry.key)
                       IN  IF ~r.ok THEN r
                           ELSE Returned(r.self,
                                    [r.u EXCEPT !.entries[i + 1] = succ.entry])
         ELSE \* Case 2c
              MergeThenDescend(i, i)
    ELSE \* Case 3
         IF i >= Len(u.children) THEN Panicked(self, u)
         ELSE IF Len(u.children[i + 1].entries) >= t
         THEN \* Case 3a
              Descend(self, u, i, key)
         ELSE IF i + 1 >= Len(u.children) THEN Panicked(self, u)
         ELSE IF Len(u.children[i + 2].entries) >= t
         THEN \* Case 3b - 1
              IF i >= Len(u.entries) THEN Panicked(self, u)
              ELSE
              LET right == u.children[i + 2]
                  u1 == [u EXCEPT !.children[i + 1].entries =
                                      Append(@, u.entries[i + 1])]
                  u2 == [u1 EXCEPT !.entries[i + 1] = right.entries[1],
                                   !.children[i + 2].entries = VecRemove(@, 0)]
              IN  IF Len(right.entries) = 0 THEN Panicked(self, u1)
                  ELSE IF right.is_leaf THEN Descend(self, u2, i, key)
                  ELSE IF Len(right.children) = 0 THEN Panicked(self, u2)
                  ELSE Descend(self,
                           [u2 EXCEPT !.children[i + 1].children =
                                          Append(@, right.children[1]),
                                      !.children[i + 2].children =
                                          VecRemove(@, 0)],
                           i, key)
         ELSE IF i = 0 THEN Panicked(self, u)
         ELSE IF Len(u.children[i].entries) >= t
         THEN \* Case 3b - 2
              IF i >= Len(u.entries) THEN Panicked(self, u)
              ELSE
              LET left == u.children[i]
                  u1 == [u EXCEPT !.children[i + 1].entries =
                                      Append(@, u.entries[i + 1])]
                  u2 == [u1 EXCEPT !.entries[i + 1] = left.entries[1],
                                   !.children[i].entries = VecRemove(@, 0)]
              IN  IF Len(left.entries) = 0 THEN Panicked(self, u1)
                  ELSE IF left.is_leaf THEN Descend(self, u2, i, key)
                  ELSE IF Len(u2.children[i + 1].children) = 0
                  THEN Panicked(self, u2)
                  ELSE Descend(self,
                           [u2 EXCEPT !.children[i].children =
                                Append(@, u2.children[i + 1].children[1]),
                                      !.children[i + 1].children =
                                          VecRemove(@, 0)],
                           i, key)
         ELSE \* Case 3c
              IF i > 0 THEN MergeThenDescend(i - 1, i - 1)
              ELSE MergeThenDescend(i, i)

(***************************************************************************)
(* Inputs and bounds                                                       *)
(***************************************************************************)
NumKeys == 4
MaxOps == 9

Keys == 1..NumKeys
Values == {"Hola"}

\* The header the tests of page.rs build.
FreshHeader ==
    Header_new(PageType_Data(Varchar(STR_DATA)), Int32(0), Int32(1), None)

\* What each part of the state holds while another part is being run.
IdleCodec ==
    /\ value = Null
    /\ buffer = <<>>
    /\ offset = 0
    /\ decoded = Null

IdleDirectory == directory = Directory_new(None, None)

IdlePage == page = Page_new(FreshHeader, None, None)

IdleCatalog == data_catalog = DataCatalog_new("data/catalog.db")

IdleBTree ==
    /\ btree = BTree_new(None, Degree)
    /\ root = BTree_new(None, Degree).root
    /\ logical = [k \in Keys |-> 0]
    /\ nops = 0

codec_vars == <<value, buffer, offset, decoded>>
btree_vars == <<btree, root, logical, nops>>

(***************************************************************************)
(* The B-Tree, driven as main drives it: the caller works on `root`, its   *)
(* own node, and hands it to the tree's methods.                           *)
(***************************************************************************)
InitBTree ==
    /\ ENDIANESS = TRUE
    /\ pc = "ok"
    /\ IdleCodec /\ IdleDirectory /\ IdlePage /\ IdleCatalog
    /\ IdleBTree

\* btree.insert_non_full(&mut root, k, v), called on a root that is not full.
InsertNonFull(k, v) ==
    /\ pc = "ok"
    /\ nops < MaxOps
    /\ ~is_full(root, btree.degree)
    /\ LET r == insert_non_full(root, k, v, btree.degree)
       IN  /\ root' = r.u
           /\ pc' = IF r.ok THEN "ok" ELSE "panicked"
    /\ logical' = [logical EXCEPT ![k] = @ + 1]
    /\ nops' = nops + 1
    /\ UNCHANGED <<ENDIANESS, codec_vars, directory, page, data_catalog, btree>>

\* The root is full: the caller makes it the tree's root (BTree::new) and
\* goes on with the node split_root returns.
SplitRoot ==
    /\ pc = "ok"
    /\ nops < MaxOps
    /\ is_full(root, btree.degree)
    /\ btree' = BTree_new(Some(root), btree.degree)
    /\ LET r == split_root(btree')
       IN  /\ root' = r.u
           /\ pc' = IF r.ok THEN "ok" ELSE "panicked"
    /\ nops' = nops + 1
    /\ UNCHANGED <<ENDIANESS, codec_vars, directory, page, data_catalog, logical>>

\* btree.delete(&mut root, k)
Delete(k) ==
    /\ pc = "ok"
    /\ nops < MaxOps
    /\ LET r == delete(btree, root, k)
       IN  /\ root' = r.u
           /\ btree' = r.self
           /\ pc' = IF r.ok THEN "ok" ELSE "panicked"
    /\ logical' = [logical EXCEPT ![k] = IF @ > 0 THEN @ - 1 ELSE 0]
    /\ nops' = nops + 1
    /\ UNCHANGED <<ENDIANESS, codec_vars, directory, page, data_catalog>>

NextBTree ==
    \/ \E k \in Keys, v \in Values : InsertNonFull(k, v)
    \/ SplitRoot
    \/ \E k \in Keys : Delete(k)

SpecBTree == InitBTree /\ [][NextBTree]_vars

\* Insertions only.
NextInsert ==
    \/ \E k \in Keys, v \in Values : InsertNonFull(k, v)
    \/ SplitRoot

SpecInsert == InitBTree /\ [][NextInsert]_vars

\* Only keys the tree does not hold are inserted: no duplicate keys.
InsertFresh(k, v) == logical[k] = 0 /\ InsertNonFull(k, v)

NextDistinct ==
    \/ \E k \in Keys, v \in Values : InsertFresh(k, v)
    \/ SplitRoot
    \/ \E k \in Keys : Delete(k)

SpecDistinct == InitBTree /\ [][NextDistinct]_vars

(***************************************************************************)
(* B-Tree properties                                                       *)
(***************************************************************************)
\* Every node of the subtree of u, with its depth and whether it is u.
RECURSIVE Nodes(_, _, _)
Nodes(u, depth, top) ==
    {[node |-> u, depth |-> depth, top |-> top]}
        \cup UNION {Nodes(u.children[c], depth + 1, FALSE) :
                        c \in 1..Len(u.children)}

StrictlyIncreasing(entries) ==
    \A a \in 1..Len(entries) - 1 : entries[a].key < entries[a + 1].key

\* C1: after any sequence of insertions (split_root when the root is full)
\* and deletions on an initially empty tree, every non-root node holds
\* between t-1 and 2t-1 entries, the keys of every node are strictly
\* increasing, and all leaves are at the same depth.
C1_Shape ==
    pc = "ok" =>
        LET N == Nodes(root, 0, TRUE)
            t == btree.degree
        IN  /\ \A n \in N : ~n.top =>
                    /\ Len(n.node.entries) >= t - 1
                    /\ Len(n.node.entries) <= 2 * t - 1
            /\ \A n \in N : StrictlyIncreasing(n.node.entries)
            /\ \A n1, n2 \in N :
                    n1.node.is_leaf /\ n2.node.is_leaf => n1.depth = n2.depth

\* C2: search(root, k) returns Some exactly when k is in the logical
\* multiset of keys (inserted more times than deleted).
C2_Membership ==
    pc = "ok" =>
        \A k \in Keys :
            LET r == search(root, k)
            IN  r.ok /\ (r.result.some <=> logical[k] > 0)

\* C3: at every step of a sequence of insertions into an initially empty
\* tree no node, the root included, holds more than 2t-1 entries.
C3_Capacity ==
    pc = "ok" =>
        \A n \in Nodes(root, 0, TRUE) :
            Len(n.node.entries) <= 2 * btree.degree - 1

(***************************************************************************)
(* The directory                                                           *)
(***************************************************************************)
NumPageIds == 2
NumObjectIds == 2

PageIds == {Int32(n) : n \in 1..NumPageIds}
ObjectIds == {Int32(n) : n \in 1..NumObjectIds}
\* Path values: "data/p" and "idx".
Paths == {Varchar(<<100, 97, 116, 97, 47, 112>>), Varchar(<<105, 100, 120>>)}

InitDirectory ==
    /\ ENDIANESS \in BOOLEAN
    /\ pc = "ok"
    /\ IdleCodec /\ IdlePage /\ IdleCatalog /\ IdleBTree
    /\ directory = Directory_new(None, None)

AddPage(page_id, path) ==
    /\ pc = "ok"
    /\ directory' = add_page(directory, page_id, path)
    /\ UNCHANGED <<ENDIANESS, pc, codec_vars, page, data_catalog, btree_vars>>

AddObject(object_id, page_id) ==
    /\ pc = "ok"
    /\ IF add_object_ok(directory, object_id, page_id)
       THEN /\ directory' = add_object(directory, object_id, page_id)
            /\ pc' = "ok"
       ELSE /\ directory' = directory
            /\ pc' = "panicked"
    /\ UNCHANGED <<ENDIANESS, codec_vars, page, data_catalog, btree_vars>>

RemoveObject(object_id) ==
    /\ pc = "ok"
    /\ directory' = remove_object(directory, object_id)
    /\ UNCHANGED <<ENDIANESS, pc, codec_vars, page, data_catalog, btree_vars>>

RemovePage(page_id) ==
    /\ pc = "ok"
    /\ directory' = remove_page(directory, page_id)
    /\ UNCHANGED <<ENDIANESS, pc, codec_vars, page, data_catalog, btree_vars>>

NextDirectory ==
    \/ \E page_id \in PageIds, path \in Paths : AddPage(page_id, path)
    \/ \E object_id \in ObjectIds, page_id \in PageIds :
            AddObject(object_id, page_id)
    \/ \E object_id \in ObjectIds : RemoveObject(object_id)
    \/ \E page_id \in PageIds : RemovePage(page_id)

SpecDirectory == InitDirectory /\ [][NextDirectory]_vars

\* C4: after every operation every page id stored as a value in `objects`
\* is a key of `pages`.
C4_ReferentialIntegrity ==
    pc = "ok" =>
        \A o \in DOMAIN directory.objects :
            directory.objects[o] \in DOMAIN directory.pages

Pairs(m) == {<<k, m[k]>> : k \in DOMAIN m}

\* C9: whatever order the two maps are iterated in, deserialize(serialize(d))
\* has a pages map and an objects map equal to d's as sets of pairs.
C9_DirectoryRoundTrip ==
    pc = "ok" =>
        /\ Directory_serialize_ok(directory)
        /\ \A po \in IterationOrders(directory.pages),
              oo \in IterationOrders(directory.objects) :
                LET r == Directory_deserialize(
                             Directory_serialize(directory, po, oo), 0)
                IN  /\ r.ok
                    /\ Pairs(r.value.pages) = Pairs(directory.pages)
                    /\ Pairs(r.value.objects) = Pairs(directory.objects)

\* C9's case: both maps hold two pairs, and two iteration orders give two
\* different buffers that decode to the same directory.
C9_Witness ==
    /\ pc = "ok"
    /\ Cardinality(DOMAIN directory.pages) = 2
    /\ Cardinality(DOMAIN directory.objects) = 2
    /\ \E po1, po2 \in IterationOrders(directory.pages) :
         \E oo \in IterationOrders(directory.objects) :
            LET b1 == Directory_serialize(directory, po1, oo)
                b2 == Directory_serialize(directory, po2, oo)
            IN  /\ b1 # b2
                /\ Directory_deserialize(b1, 0).value.pages = directory.pages
                /\ Directory_deserialize(b2, 0).value.pages = directory.pages

(***************************************************************************)
(* The codec: one value is encoded into a fresh buffer, then decoded from  *)
(* offset 0.                                                               *)
(***************************************************************************)
\* n bytes of text: "bcd..."
Str(n) == [i \in 1..n |-> 97 + (i % 26)]

\* Up to the 32-byte limit, and past it (33; 255, 256 and 288 around the
\* u8 wrap of the length byte).
VarcharLens == {0, 1, 5, 31, 32, 33, 255, 256, 288}

Int32Samples ==
    {0, 1, -1, 42, 255, 256, -256, 65535, 16777216,
     2147483647, -2147483647 - 1}

\* +0, -0, 1.0, 4.4849, f64::MAX, f64::MIN, +inf, -inf, the least
\* subnormal, a quiet NaN and a NaN with a payload.
Float64Samples ==
    {<<0, 0, 0, 0, 0, 0, 0, 0>>, <<128, 0, 0, 0, 0, 0, 0, 0>>,
     <<63, 240, 0, 0, 0, 0, 0, 0>>, <<64, 17, 240, 137, 160, 39, 82, 84>>,
     <<127, 239, 255, 255, 255, 255, 255, 255>>,
     <<255, 239, 255, 255, 255, 255, 255, 255>>,
     <<127, 240, 0, 0, 0, 0, 0, 0>>, <<255, 240, 0, 0, 0, 0, 0, 0>>,
     <<0, 0, 0, 0, 0, 0, 0, 1>>,
     <<127, 248, 0, 0, 0, 0, 0, 0>>, <<255, 240, 0, 0, 0, 0, 0, 1>>}

InitCodec ==
    /\ ENDIANESS \in BOOLEAN
    /\ pc = "value"
    /\ \/ \E n \in VarcharLens : value = Varchar(Str(n))
       \/ \E n \in Int32Samples : value = Int32(n)
       \/ \E bits \in Float64Samples : value = Float64(bits)
       \/ \E b \in BOOLEAN : value = Bool(b)
       \/ value = Null
    /\ buffer = <<>>
    /\ offset = 0
    /\ decoded = Null
    /\ IdleDirectory /\ IdlePage /\ IdleCatalog /\ IdleBTree

\* let mut buffer = Vec::new(); value.serialize(&mut buffer);
Encode ==
    /\ pc = "value"
    /\ IF DataType_serialize_ok(value)
       THEN /\ buffer' = DataType_serialize(value)
            /\ pc' = "encoded"
       ELSE /\ buffer' = buffer
            /\ pc' = "panicked"
    /\ UNCHANGED <<ENDIANESS, value, offset, decoded, directory, page,
                   data_catalog, btree_vars>>

\* let mut offset = 0; DataType::deserialize(&buffer, &mut offset);
Decode ==
    /\ pc = "encoded"
    /\ LET r == DataType_deserialize(buffer, 0)
       IN  /\ offset' = r.offset
           /\ decoded' = r.value
           /\ pc' = IF r.ok THEN "decoded" ELSE "panicked"
    /\ UNCHANGED <<ENDIANESS, value, buffer, directory, page, data_catalog,
                   btree_vars>>

NextCodec == Encode \/ Decode

SpecCodec == InitCodec /\ [][NextCodec]_vars

\* The constraint on a value: a Varchar holds at most 32 bytes.
InConstraints(v) == v.type = "Varchar" => Len(v.value) <= 32

\* The fixed width the claim gives each kind.
Width(v) ==
    CASE v.type = "Null" -> 2
      [] v.type = "Varchar" -> 34
      [] v.type = "Int32" -> 5
      [] v.type = "Float64" -> 9
      [] v.type = "Bool" -> 2

\* C8, as stated: for every value within its constraints, decoding the
\* encoding from offset 0 returns a value equal to it and leaves the offset
\* at the fixed width of its kind, which is the length of the encoding.
C8_CodecRoundTrip_AsStated ==
    InConstraints(value) =>
        /\ pc # "panicked"
        /\ pc = "encoded" => Len(buffer) = Width(value)
        /\ pc = "decoded" =>
            /\ DataTypeEq(decoded, value)
            /\ offset = Width(value)
            /\ Len(buffer) = Width(value)

\* C8, amended: for every value within its constraints the encoding has the
\* fixed width of the value's kind and decoding it from offset 0 leaves the
\* offset at that width; the decoded value is equal to the value unless the
\* value is a Float64 NaN, which decodes to a Float64 NaN (and a NaN is
\* equal to nothing).
C8_CodecRoundTrip ==
    InConstraints(value) =>
        /\ pc # "panicked"
        /\ pc = "encoded" => Len(buffer) = Width(value)
        /\ pc = "decoded" =>
            /\ offset = Width(value)
            /\ Len(buffer) = Width(value)
            /\ IF value.type = "Float64" /\ F64IsNaN(value.value)
               THEN /\ decoded.type = "Float64"
                    /\ F64IsNaN(decoded.value)
                    /\ ~DataTypeEq(decoded, value)
               ELSE DataTypeEq(decoded, value)

\* C8's case: a NaN has been encoded and decoded; the offset is at the
\* Float64 width and the decoded value carries a NaN.
C8_Witness ==
    /\ pc = "decoded"
    /\ value.type = "Float64"
    /\ F64IsNaN(value.value)
    /\ decoded.type = "Float64"
    /\ F64IsNaN(decoded.value)
    /\ offset = 9

(***************************************************************************)
(* The page: tuples are appended to a fresh page.                          *)
(***************************************************************************)
MaxAppends == 3

Repeat(x, n) == [i \in 1..n |-> x]

TupleKinds == {"row", "row2", "empty", "mixed", "wide60", "wide118", "wide119"}

\* "row" and "row2" are the tuples of the tests; the wide tuples hold 60,
\* 118 and 119 Varchar columns.
TupleData(kind) ==
    CASE kind = "row" -> <<Int32(10), Varchar(<<116, 101, 115, 116>>)>>
      [] kind = "row2" -> <<Int32(20), Varchar(<<116, 101, 115, 116, 50>>)>>
      [] kind = "empty" -> <<>>
      [] kind = "mixed" ->
            <<Null, Bool(TRUE), Float64(<<63, 240, 0, 0, 0, 0, 0, 0>>)>>
      [] kind = "wide60" -> Repeat(Varchar(<<116, 101, 115, 116>>), 60)
      [] kind = "wide118" -> Repeat(Varchar(<<116, 101, 115, 116>>), 118)
      [] kind = "wide119" -> Repeat(Varchar(<<116, 101, 115, 116>>), 119)

InitPage ==
    /\ ENDIANESS \in BOOLEAN
    /\ pc = "ok"
    /\ page = Page_new(FreshHeader, None, None)
    /\ IdleCodec /\ IdleDirectory /\ IdleCatalog /\ IdleBTree

\* page.append_tuple(tuple_data): a failed assert! leaves the page as the
\* panic found it.
AppendTuple(kind) ==
    /\ pc = "ok"
    /\ Len(page.slots) < MaxAppends
    /\ LET r == append_tuple(page, TupleData(kind))
       IN  /\ page' = r.page
           /\ pc' = IF r.ok THEN "ok" ELSE "panicked"
    /\ UNCHANGED <<ENDIANESS, codec_vars, directory, data_catalog, btree_vars>>

NextPage == \E kind \in TupleKinds : AppendTuple(kind)

SpecPage == InitPage /\ [][NextPage]_vars

\* The end of the slot directory in the serialized page: the serialized
\* header size plus the size of the encoded slot deque.
slot_end(p) ==
    Len(Header_serialize(p.header)) + Len(serialize_vecdeque("Slot", p.slots))

tuple_region_start(p) == as_int(p.header.offset)

\* C5: for every sequence of appends a fresh page accepts, free_space stays
\* >= 0, and serialize either fails or the end of the slot directory does
\* not exceed the byte index where the tuple deque starts.
C5_PageCapacity ==
    pc = "ok" =>
        /\ get_free_space(page) >= 0
        /\ Page_serialize_ok(page) => slot_end(page) <= tuple_region_start(page)

SameTupleData(a, b) ==
    /\ Len(a) = Len(b)
    /\ \A i \in 1..Len(a) : DataTypeEq(a[i], b[i])

\* C6: for every fresh page to which n >= 1 tuples were appended and
\* accepted, deserialize(serialize(page)) has the same free_space,
\* page_number and next_page, the same number of slots, and the same tuple
\* data at every index of the tuple deque.
C6_PageRoundTrip ==
    pc = "ok" /\ Len(page.slots) >= 1 =>
        /\ Page_serialize_ok(page)
        /\ LET r == Page_deserialize(Page_serialize(page), 0)
           IN  /\ r.ok
               /\ DataTypeEq(r.value.header.free_space, page.header.free_space)
               /\ DataTypeEq(r.value.header.page_number,
                             page.header.page_number)
               /\ DataTypeEq(r.value.header.next_page, page.header.next_page)
               /\ Len(r.value.slots) = Len(page.slots)
               /\ Len(r.value.data) = Len(page.data)
               /\ \A i \in 1..Len(page.data) :
                    SameTupleData(r.value.data[i].data, page.data[i].data)

\* C7: in every state reachable from a fresh page by accepted appends,
\* header.free_space = tuple_region_start - slot_end.
C7_FreeSpaceAccounting ==
    pc = "ok" =>
        get_free_space(page) = tuple_region_start(page) - slot_end(page)

(***************************************************************************)
(* The catalog: tables are added to a new catalog.                         *)
(***************************************************************************)
MaxTables == 3

TableKinds == {"test", "bare", "same_name", "long_name"}

Text_table == <<116, 97, 98, 108, 101>>
Text_column == <<99, 111, 108, 117, 109, 110>>
Text_constraint == <<99, 111, 110, 115, 116, 114, 97, 105, 110, 116>>
Text_type == <<116, 121, 112, 101>>
Text_index == <<105, 110, 100, 101, 120>>

\* "test" is the table of test_data_catalog_serialization; "same_name"
\* repeats its oid and its name with other columns; "long_name" has a name
\* of 32 bytes.
TableOf(kind) ==
    CASE kind = "test" ->
            [oid |-> Int32(1), name |-> Varchar(Text_table),
             columns |-> <<[oid |-> Int32(2), name |-> Varchar(Text_column),
                            max_value |-> Int32(100), min_value |-> Int32(0),
                            constraints |->
                                <<[oid |-> Int32(3),
                                   name |-> Varchar(Text_constraint),
                                   dtype |-> Varchar(Text_type)]>>]>>,
             indexes |-> <<[oid |-> Int32(4), name |-> Varchar(Text_index),
                            columns |-> <<Varchar(Text_column)>>,
                            unique |-> Bool(TRUE)]>>]
      [] kind = "bare" ->
            [oid |-> Int32(2), name |-> Varchar(<<116>>),
             columns |-> <<>>, indexes |-> <<>>]
      [] kind = "same_name" ->
            [oid |-> Int32(1), name |-> Varchar(Text_table),
             columns |-> <<[oid |-> Int32(5), name |-> Varchar(<<97>>),
                            max_value |-> Null, min_value |-> Null,
                            constraints |-> <<>>],
                           [oid |-> Int32(6), name |-> Varchar(<<98>>),
                            max_value |->
                                Float64(<<127, 239, 255, 255, 255, 255, 255,
                                          255>>),
                            min_value |->
                                Float64(<<255, 239, 255, 255, 255, 255, 255,
                                          255>>),
                            constraints |->
                                <<[oid |-> Int32(7),
                                   name |-> Varchar(Text_constraint),
                                   dtype |-> Varchar(Text_type)],
                                  [oid |-> Int32(7),
                                   name |-> Varchar(Text_type),
                                   dtype |-> Null]>>]>>,
             indexes |-> <<>>]
      [] kind = "long_name" ->
            [oid |-> Int32(-1), name |-> Varchar(Str(32)),
             columns |-> <<>>,
             indexes |-> <<[oid |-> Int32(8), name |-> Varchar(Text_index),
                            columns |-> <<>>, unique |-> Bool(FALSE)],
                           [oid |-> Int32(9), name |-> Varchar(Str(32)),
                            columns |-> <<Varchar(<<97>>), Varchar(<<98>>),
                                          Int32(6)>>,
                            unique |-> Bool(TRUE)]>>]

InitCatalog ==
    /\ ENDIANESS \in BOOLEAN
    /\ pc = "ok"
    /\ data_catalog = DataCatalog_new("data/catalog.db")
    /\ IdleCodec /\ IdleDirectory /\ IdlePage /\ IdleBTree

\* data_catalog.add_table(table)
AddTable(kind) ==
    /\ pc = "ok"
    /\ Len(data_catalog.tables) < MaxTables
    /\ data_catalog' = add_table(data_catalog, TableOf(kind))
    /\ UNCHANGED <<ENDIANESS, pc, codec_vars, directory, page, btree_vars>>

NextCatalog == \E kind \in TableKinds : AddTable(kind)

SpecCatalog == InitCatalog /\ [][NextCatalog]_vars

\* C10: after any sequence of add_table calls (duplicate names and object
\* ids allowed), deserialize(serialize(catalog)) yields a table list of the
\* same length with the same table names in the same insertion order, and
\* decoding consumes exactly the serialized bytes.
C10_CatalogRoundTrip ==
    pc = "ok" =>
        /\ DataCatalog_serialize_ok(data_catalog)
        /\ LET serialized == DataCatalog_serialize(data_catalog)
               r == DataCatalog_deserialize(serialized, 0)
           IN  /\ r.ok
               /\ Len(r.value.tables) = Len(data_catalog.tables)
               /\ \A i \in 1..Len(data_catalog.tables) :
                    DataTypeEq(r.value.tables[i].name,
                               data_catalog.tables[i].name)
               /\ r.offset = Len(serialized)

\* C10's case: two tables with the same name and oid but different columns
\* were added, followed by a third, and the decoded list gives the three
\* names in that order.
C10_Witness ==
    /\ pc = "ok"
    /\ Len(data_catalog.tables) = 3
    /\ data_catalog.tables[1] = TableOf("test")
    /\ data_catalog.tables[2] = TableOf("same_name")
    /\ data_catalog.tables[3] = TableOf("long_name")
    /\ LET r == DataCatalog_deserialize(DataCatalog_serialize(data_catalog), 0)
       IN  /\ r.value.tables[1].name = Varchar(Text_table)
           /\ r.value.tables[2].name = Varchar(Text_table)
           /\ r.value.tables[3].name = Varchar(Str(32))

(***************************************************************************)
(* Properties of the directory operations                                  *)
(***************************************************************************)
\* C11: add_object(oid, pid) fails whenever pid is not a key of `pages`,
\* leaving both maps unchanged; when pid is registered it succeeds and
\* objects maps oid to pid.
C11_AddObject ==
    [][\A object_id \in ObjectIds, page_id \in PageIds :
          AddObject(object_id, page_id) =>
              IF page_id \in DOMAIN directory.pages
              THEN /\ pc' = "ok"
                   /\ object_id \in DOMAIN directory'.objects
                   /\ directory'.objects[object_id] = page_id
                   /\ directory'.pages = directory.pages
              ELSE /\ pc' = "panicked"
                   /\ directory'.pages = directory.pages
                   /\ directory'.objects = directory.objects]_vars

\* C11's case: add_object has failed on a directory that holds a page (so
\* the page id it was given is the other one) and holds an object.
C11_Witness ==
    /\ pc = "panicked"
    /\ Cardinality(DOMAIN directory.pages) = 1
    /\ directory.objects # <<>>

\* C17: remove_page(pid) removes pid from pages if present, leaves every
\* other page mapping and the objects map unchanged; removing an absent
\* page or object id changes nothing, so each removal is idempotent.
C17_RemoveFrame ==
    [][/\ \A page_id \in PageIds :
            RemovePage(page_id) =>
                /\ directory'.objects = directory.objects
                /\ page_id \notin DOMAIN directory'.pages
                /\ \A p \in DOMAIN directory.pages \ {page_id} :
                        /\ p \in DOMAIN directory'.pages
                        /\ directory'.pages[p] = directory.pages[p]
                /\ DOMAIN directory'.pages \subseteq DOMAIN directory.pages
                /\ page_id \notin DOMAIN directory.pages =>
                        directory' = directory
                /\ remove_page(directory', page_id) = directory'
       /\ \A object_id \in ObjectIds :
            RemoveObject(object_id) =>
                /\ directory'.pages = directory.pages
                /\ object_id \notin DOMAIN directory.objects =>
                        directory' = directory
                /\ remove_object(directory', object_id) = directory']_vars

\* C17's case: a page has been removed while an object still points to it,
\* and the object is still there.
C17_Witness ==
    /\ pc = "ok"
    /\ \E o \in DOMAIN directory.objects :
            directory.objects[o] \notin DOMAIN directory.pages
    /\ directory.pages # <<>>


(***************************************************************************)
(* Properties of append_tuple and of the fresh page                        *)
(***************************************************************************)
\* The serialized size of a slot, and the size charged for the tuple of an
\* append: its serialized size, plus the 5 bytes reserved with the first
\* tuple of a page.
slot_size_of(p) ==
    Len(Slot_serialize(Slot_new(Int32(0), Int32(0), Int32(0))))

charged_size(p, tuple_data) ==
    Len(Tuple_serialize(Tuple_new(Int32(as_int(p.header.last_slot) + 1),
                                  tuple_data)))
        + (IF as_int(p.header.last_slot) = 0 THEN 5 ELSE 0)

\* C12: append_tuple fails exactly when the serialized slot size plus the
\* tuple size S charged for the append exceeds the current free_space, and
\* succeeds otherwise, decrementing free_space by exactly size(slot) + S.
C12_AppendFailsExactlyWhenFull ==
    [][\A kind \in TupleKinds :
          AppendTuple(kind) =>
              LET needed == slot_size_of(page)
                                + charged_size(page, TupleData(kind))
              IN  IF needed > get_free_space(page)
                  THEN pc' = "panicked"
                  ELSE /\ pc' = "ok"
                       /\ get_free_space(page')
                            = get_free_space(page) - needed]_vars

\* C12's case: a page that accepted two appends has refused a third.
C12_Witness ==
    /\ pc = "panicked"
    /\ Len(page.data) = 2
    /\ as_int(page.header.last_slot) = 3

\* C13: a newly constructed page has free_space equal to 4096 minus the
\* serialized size of its header.
C13_FreshFreeSpace ==
    pc = "ok" /\ page.slots = <<>> /\ page.data = <<>> =>
        get_free_space(page) = 4096 - Len(Header_serialize(page.header))

\* C14: on a fresh page the k-th accepted append_tuple assigns tuple_id k,
\* so tuple ids are strictly increasing in call order, and after k accepted
\* appends header.last_slot = number of slots = number of tuples = k.  (The
\* slots are pushed at the back, the tuples at the front.)
C14_TupleIds ==
    pc = "ok" =>
        LET k == Len(page.slots)
        IN  /\ as_int(page.header.last_slot) = k
            /\ Len(page.data) = k
            /\ \A i \in 1..k :
                    /\ page.slots[i].tuple_id = Int32(i)
                    /\ page.data[k + 1 - i].tuple_id = Int32(i)

\* C14's case: three appends were accepted.
C14_Witness ==
    /\ pc = "ok"
    /\ Len(page.slots) = 3
    /\ page.data[1].tuple_id = Int32(3)
    /\ page.data[3].tuple_id = Int32(1)


(***************************************************************************)
(* The Varchar length limit                                                *)
(***************************************************************************)
\* C16: encode rejects every Varchar whose byte length is greater than 32,
\* whatever that length is, so every successfully encoded Varchar occupies
\* exactly 34 bytes with a length byte <= 32.
C16_VarcharLimit ==
    value.type = "Varchar" =>
        /\ Len(value.value) > 32 => pc \in {"value", "panicked"}
        /\ pc \in {"encoded", "decoded"} =>
                /\ Len(buffer) = 34
                /\ buffer[2] <= 32


(***************************************************************************)
(* The B-Tree operations, each applied once to a tree that satisfies the   *)
(* B-Tree invariants: a leaf root, a root over leaves, or a root over      *)
(* internal nodes over leaves.  The stored keys are the even numbers, so   *)
(* that every gap between two stored keys holds an absent key.             *)
(***************************************************************************)
\* Entries per non-root node (minimum, one above it, full) and children of
\* the root (minimum, one above the middle, full).
ChildSizes == {Degree - 1, Degree, 2 * Degree - 1}
ChildCounts == {2, Degree + 1, 2 * Degree}

\* <<n>> is a leaf root of n entries; <<c1, ..., cm>> a root of m-1 entries
\* over m leaves of c1, ..., cm entries.
TreeShapes ==
    {<<n>> : n \in 0..2 * Degree - 1}
        \cup UNION {[1..m -> ChildSizes] : m \in ChildCounts}

\* The in-order position of the first entry of the j-th leaf.
RECURSIVE FirstPosition(_, _)
FirstPosition(sizes, j) ==
    IF j = 1 THEN 1 ELSE FirstPosition(sizes, j - 1) + sizes[j - 1] + 1

LeafAt(first, n, is_root) ==
    BTreeNode_new(Some([p \in 1..n |-> Entry_new(2 * (first + p - 1), "Hola")]),
                  None, TRUE, is_root)

TreeOf(sizes) ==
    IF Len(sizes) = 1 THEN LeafAt(1, sizes[1], TRUE)
    ELSE BTreeNode_new(
            Some([j \in 1..Len(sizes) - 1 |->
                    Entry_new(2 * (FirstPosition(sizes, j) + sizes[j]),
                              "Hola")]),
            Some([j \in 1..Len(sizes) |->
                    LeafAt(FirstPosition(sizes, j), sizes[j], FALSE)]),
            FALSE, TRUE)

\* Trees of three levels: counts[j] is the number of entries of the j-th
\* child of the root, an internal node over counts[j] + 1 leaves of n
\* entries each.
DeepShapes == UNION {[1..m -> {Degree - 1, Degree}] : m \in {2, 3}}
DeepLeafSizes == {Degree - 1, Degree}

\* The number of keys under an internal node of c entries.
InnerSize(c, n) == c + (c + 1) * n

\* The in-order position of the first key under the j-th child of the root.
RECURSIVE DeepFirst(_, _, _)
DeepFirst(counts, n, j) ==
    IF j = 1 THEN 1
    ELSE DeepFirst(counts, n, j - 1) + InnerSize(counts[j - 1], n) + 1

InnerAt(first, c, n) ==
    BTreeNode_new(
        Some([e \in 1..c |->
                Entry_new(2 * (first + e * (n + 1) - 1), "Hola")]),
        Some([l \in 1..c + 1 |->
                LeafAt(first + (l - 1) * (n + 1), n, FALSE)]),
        FALSE, FALSE)

DeepTreeOf(counts, n) ==
    BTreeNode_new(
        Some([j \in 1..Len(counts) - 1 |->
                Entry_new(2 * (DeepFirst(counts, n, j)
                                + InnerSize(counts[j], n)), "Hola")]),
        Some([j \in 1..Len(counts) |->
                InnerAt(DeepFirst(counts, n, j), counts[j], n)]),
        FALSE, TRUE)

\* The keys stored in the subtree of u, node by node.
RECURSIVE KeysOf(_)
KeysOf(u) ==
    [e \in 1..Len(u.entries) |-> u.entries[e].key]
        \o Flatten([c \in 1..Len(u.children) |-> KeysOf(u.children[c])])

Count(keys, k) == Cardinality({i \in 1..Len(keys) : keys[i] = k})

RECURSIVE Height(_)
Height(u) ==
    IF Len(u.children) = 0 THEN 0
    ELSE 1 + Height(u.children[1])

\* The keys an operation is called with: the stored ones and the gaps.
OpKeys(u) == 1..2 * Len(KeysOf(u)) + 1

InitValidTree ==
    /\ ENDIANESS = TRUE
    /\ pc = "valid"
    /\ \/ \E sizes \in TreeShapes :
            /\ root = TreeOf(sizes)
            /\ btree = BTree_new(Some(TreeOf(sizes)), Degree)
       \/ \E counts \in DeepShapes, n \in DeepLeafSizes :
            /\ root = DeepTreeOf(counts, n)
            /\ btree = BTree_new(Some(DeepTreeOf(counts, n)), Degree)
    /\ logical = [k \in Keys |-> 0]
    /\ nops = 0
    /\ IdleCodec /\ IdleDirectory /\ IdlePage /\ IdleCatalog

\* btree.insert_non_full(&mut root, k, v) on a root that is not full.
InsertInto(k) ==
    /\ pc = "valid"
    /\ ~is_full(root, btree.degree)
    /\ LET r == insert_non_full(root, k, "Hola", btree.degree)
       IN  /\ root' = r.u
           /\ pc' = IF r.ok THEN "inserted" ELSE "panicked"
    /\ UNCHANGED <<ENDIANESS, codec_vars, directory, page, data_catalog,
                   btree, logical, nops>>

\* btree.split_child(&mut root, i) on a full child of a root that is not
\* full.
SplitChildOf(i) ==
    /\ pc = "valid"
    /\ ~is_full(root, btree.degree)
    /\ i < Len(root.children)
    /\ is_full(root.children[i + 1], btree.degree)
    /\ LET r == split_child(root, i, btree.degree)
       IN  /\ root' = r.u
           /\ pc' = IF r.ok THEN "split_child" ELSE "panicked"
    /\ UNCHANGED <<ENDIANESS, codec_vars, directory, page, data_catalog,
                   btree, logical, nops>>

\* let root = btree.split_root() on a tree whose root is full: the caller
\* goes on with the returned node, the tree is borrowed immutably.
SplitRootOf ==
    /\ pc = "valid"
    /\ is_full(btree.root, btree.degree)
    /\ LET r == split_root(btree)
       IN  /\ root' = r.u
           /\ pc' = IF r.ok THEN "split_root" ELSE "panicked"
    /\ UNCHANGED <<ENDIANESS, codec_vars, directory, page, data_catalog,
                   btree, logical, nops>>

\* btree.delete(&mut root, k)
DeleteFrom(k) ==
    /\ pc = "valid"
    /\ LET r == delete(btree, root, k)
       IN  /\ root' = r.u
           /\ btree' = r.self
           /\ pc' = IF r.ok THEN "deleted"
                    ELSE IF r.why = "key not found" THEN "key not found"
                    ELSE "panicked"
    /\ UNCHANGED <<ENDIANESS, codec_vars, directory, page, data_catalog,
                   logical, nops>>

\* btree.merge_children(&mut root, i) on two neighbouring children of t-1
\* entries each.
MergeChildrenOf(i) ==
    /\ pc = "valid"
    /\ i + 1 < Len(root.children)
    /\ Len(root.children[i + 1].entries) = btree.degree - 1
    /\ Len(root.children[i + 2].entries) = btree.degree - 1
    /\ LET r == merge_children(root, i)
       IN  /\ root' = r.u
           /\ pc' = IF r.ok THEN "merged" ELSE "panicked"
    /\ UNCHANGED <<ENDIANESS, codec_vars, directory, page, data_catalog,
                   btree, logical, nops>>

\* btree.search(&root, k): both the tree and the node are borrowed
\* immutably; pc tells what the call returned.
SearchFor(k) ==
    /\ pc = "valid"
    /\ LET r == search(root, k)
       IN  pc' = IF ~r.ok THEN "panicked"
                 ELSE IF r.result.some THEN "found" ELSE "absent"
    /\ UNCHANGED <<ENDIANESS, codec_vars, directory, page, data_catalog,
                   btree, root, logical, nops>>

NextValidTree ==
    \/ \E k \in OpKeys(root) : InsertInto(k)
    \/ \E i \in 0..2 * Degree : SplitChildOf(i)
    \/ SplitRootOf
    \/ \E k \in OpKeys(root) : DeleteFrom(k)
    \/ \E i \in 0..2 * Degree : MergeChildrenOf(i)
    \/ \E k \in OpKeys(root) : SearchFor(k)

SpecValidTree == InitValidTree /\ [][NextValidTree]_vars


(***************************************************************************)
(* Properties of the B-Tree operations on valid trees                      *)
(***************************************************************************)
KeySet(keys) == {keys[i] : i \in 1..Len(keys)}

\* The multiset `after` is the multiset `before` plus one k.
IsPlusOne(after, before, k) ==
    \A x \in KeySet(after) \cup KeySet(before) \cup {k} :
        Count(after, x) = Count(before, x) + (IF x = k THEN 1 ELSE 0)

SameMultiset(a, b) ==
    \A x \in KeySet(a) \cup KeySet(b) : Count(a, x) = Count(b, x)

\* C15: for every tree satisfying the B-Tree invariants and every absent
\* key k, delete(root, k) never returns normally: it ends in the
\* KeyNotFound failure.
C15_DeleteAbsentKey ==
    [][\A k \in OpKeys(root) :
          DeleteFrom(k) /\ Count(KeysOf(root), k) = 0 =>
              pc' = "key not found"]_vars

\* C18: for every valid subtree whose root u is not full (leaf or internal,
\* with the target child full or not), after insert_non_full(u, k, v) the
\* multiset of keys of the subtree is the previous one plus k, and
\* search(u, k) returns Some.
C18_InsertNonFullPost ==
    [][\A k \in OpKeys(root) :
          InsertInto(k) =>
              /\ pc' = "inserted"
              /\ IsPlusOne(KeysOf(root'), KeysOf(root), k)
              /\ search(root', k).ok
              /\ search(root', k).result.some]_vars

\* C19: when children[i] of u holds 2t-1 entries, after split_child(u, i)
\* children[i] holds exactly the t-1 smallest entries, children[i+1] the
\* t-1 largest, u.entries[i] is the former median, u has one more entry
\* and one more child, and the multiset of keys of u's subtree is
\* unchanged.
C19_SplitChildPost ==
    [][\A i \in 0..2 * Degree :
          SplitChildOf(i) =>
              LET t == btree.degree
                  old == root.children[i + 1].entries
              IN  /\ pc' = "split_child"
                  /\ Len(root'.entries) = Len(root.entries) + 1
                  /\ Len(root'.children) = Len(root.children) + 1
                  /\ root'.children[i + 1].entries = SubSeq(old, 1, t - 1)
                  /\ root'.children[i + 2].entries
                        = SubSeq(old, t + 1, 2 * t - 1)
                  /\ root'.entries[i + 1] = old[t]
                  /\ SameMultiset(KeysOf(root'), KeysOf(root))]_vars

\* C20: after split_root on a tree whose root holds 2t-1 entries, the
\* tree's root (BTree.root) is a new non-leaf node with exactly one entry
\* (the old median) and two children of t-1 entries each, the height has
\* grown by one, and no other operation ever increases the height.
C20_RootGrowth ==
    [][/\ SplitRootOf =>
            LET t == btree.degree
                new == btree'.root
            IN  /\ pc' = "split_root"
                /\ ~new.is_leaf
                /\ Len(new.entries) = 1
                /\ new.entries[1] = btree.root.entries[t]
                /\ Len(new.children) = 2
                /\ Len(new.children[1].entries) = t - 1
                /\ Len(new.children[2].entries) = t - 1
                /\ Height(new) = Height(btree.root) + 1
       /\ \/ \E k \in OpKeys(root) :
                InsertInto(k) \/ DeleteFrom(k) \/ SearchFor(k)
          \/ \E i \in 0..2 * Degree : SplitChildOf(i) \/ MergeChildrenOf(i)
          => /\ Height(root') <= Height(root)
             /\ Height(btree'.root) <= Height(btree.root)]_vars


(***************************************************************************)
(* Properties of delete, merge_children and search on valid trees          *)
(***************************************************************************)
\* The keys of the subtree of u in in-order: children[j], entries[j],
\* children[j+1], ...
RECURSIVE InOrder(_)
InOrder(u) ==
    IF Len(u.children) = 0 THEN [e \in 1..Len(u.entries) |-> u.entries[e].key]
    ELSE Flatten([j \in 1..Len(u.children) |->
                    InOrder(u.children[j])
                        \o (IF j <= Len(u.entries)
                            THEN <<u.entries[j].key>> ELSE <<>>)])
            \o (IF Len(u.entries) < Len(u.children) THEN <<>>
                ELSE [e \in 1..(Len(u.entries) - Len(u.children)) |->
                        u.entries[Len(u.children) + e].key])

Sorted(keys) == \A a, b \in 1..Len(keys) : a < b => keys[a] < keys[b]

\* The index (from 1) of key k among the entries of u, 0 when it is not
\* there.
IndexOf(u, k) ==
    IF \E i \in 1..Len(u.entries) : u.entries[i].key = k
    THEN CHOOSE i \in 1..Len(u.entries) : u.entries[i].key = k
    ELSE 0

Largest(S) == CHOOSE x \in S : \A y \in S : y <= x
Smallest(S) == CHOOSE x \in S : \A y \in S : x <= y

\* C21: for every valid tree where k = u.entries[i].key in the internal
\* node u and children[i] (or else children[i+1]) has at least t entries,
\* delete(u, k) completes without failure, replaces entries[i] by the
\* in-order predecessor (resp. successor) of k, removes exactly one
\* occurrence of k and keeps every other key and the B-Tree ordering.
C21_DeleteInternalKey ==
    [][\A k \in OpKeys(root) :
          LET i == IndexOf(root, k)
              t == btree.degree
              stored == KeySet(KeysOf(root))
          IN  /\ DeleteFrom(k)
              /\ ~root.is_leaf
              /\ i > 0
              /\ \/ Len(root.children[i].entries) >= t
                 \/ Len(root.children[i + 1].entries) >= t
              => /\ pc' = "deleted"
                 /\ Len(root'.entries) = Len(root.entries)
                 /\ root'.entries[i].key =
                        IF Len(root.children[i].entries) >= t
                        THEN Largest({x \in stored : x < k})
                        ELSE Smallest({x \in stored : x > k})
                 /\ IsPlusOne(KeysOf(root), KeysOf(root'), k)
                 /\ Sorted(InOrder(root'))]_vars


\* C22: when a merge during delete leaves the root u with zero entries
\* (the root has one entry over two children of t-1 entries), the tree's
\* root is replaced by the merged child, deletion continues inside that
\* child and completes: the resulting tree is one level lower and holds
\* every previous key except the deleted one.
C22_RootCollapse ==
    [][\A k \in OpKeys(root) :
          LET t == btree.degree
          IN  /\ DeleteFrom(k)
              /\ Count(KeysOf(root), k) = 1
              /\ Len(root.entries) = 1
              /\ Len(root.children) = 2
              /\ Len(root.children[1].entries) = t - 1
              /\ Len(root.children[2].entries) = t - 1
              => /\ pc' = "deleted"
                 /\ Height(btree'.root) = Height(root) - 1
                 /\ IsPlusOne(KeysOf(root), KeysOf(btree'.root), k)
                 /\ Sorted(InOrder(btree'.root))]_vars


\* C23: for every valid internal node u and every child index i from 0 to
\* len(u.entries) inclusive, when children[i] has only t-1 entries delete
\* examines only siblings that exist, merges with a minimal sibling if none
\* can lend, and completes when the key is present: the call returns and
\* the key is gone from the tree.
C23_DeleteDescentAtEdges ==
    [][\A k \in OpKeys(root) :
          LET t == btree.degree
              i == ScanGreater(root.entries, k)
          IN  /\ DeleteFrom(k)
              /\ ~root.is_leaf
              /\ IndexOf(root, k) = 0
              /\ Count(KeysOf(root), k) = 1
              /\ Len(root.children[i + 1].entries) = t - 1
              => /\ pc' = "deleted"
                 /\ \/ IsPlusOne(KeysOf(root), KeysOf(root'), k)
                    \/ IsPlusOne(KeysOf(root), KeysOf(btree'.root), k)]_vars


\* C24: when children[i] has t-1 entries, its right sibling cannot lend
\* and children[i-1] has at least t entries, the delete that descends into
\* children[i] first rotates from the left: the separator between the two
\* moves down to become the first entry of children[i], the largest entry
\* of children[i-1] moves up as the new separator, and the B-Tree ordering
\* and the key multiset of u's subtree (less the deleted key) are kept.
C24_RotationFromLeft ==
    [][\A k \in OpKeys(root) :
          LET t == btree.degree
              i == ScanGreater(root.entries, k)
              left == root.children[i]
          IN  /\ DeleteFrom(k)
              /\ ~root.is_leaf
              /\ IndexOf(root, k) = 0
              /\ Count(KeysOf(root), k) = 1
              /\ i >= 1
              /\ i + 2 <= Len(root.children)
              /\ Len(root.children[i + 1].entries) = t - 1
              /\ Len(root.children[i + 2].entries) < t
              /\ Len(left.entries) >= t
              => /\ pc' = "deleted"
                 /\ root'.entries[i] = left.entries[Len(left.entries)]
                 /\ root'.children[i + 1].entries[1] = root.entries[i]
                 /\ Len(root'.children[i].entries) = Len(left.entries) - 1
                 /\ IsPlusOne(KeysOf(root), KeysOf(root'), k)
                 /\ Sorted(InOrder(root'))]_vars


\* C25: when children[i] and children[i+1] of u both hold t-1 entries,
\* after merge_children(u, i) children[i] holds exactly 2t-1 entries in
\* increasing order (the left entries, the former u.entries[i], the right
\* entries) and, when non-leaf, 2t children; u has one entry and one child
\* fewer, and the multiset of keys in u's subtree is unchanged.
C25_MergeChildrenPost ==
    [][\A i \in 0..2 * Degree :
          MergeChildrenOf(i) =>
              LET t == btree.degree
                  left == root.children[i + 1]
                  right == root.children[i + 2]
                  merged == root'.children[i + 1]
              IN  /\ pc' = "merged"
                  /\ Len(merged.entries) = 2 * t - 1
                  /\ merged.entries
                        = left.entries \o <<root.entries[i + 1]>>
                            \o right.entries
                  /\ Sorted([e \in 1..Len(merged.entries) |->
                                merged.entries[e].key])
                  /\ ~left.is_leaf =>
                        /\ Len(merged.children) = 2 * t
                        /\ merged.children
                              = left.children \o right.children
                  /\ Len(root'.entries) = Len(root.entries) - 1
                  /\ Len(root'.children) = Len(root.children) - 1
                  /\ \A j \in 1..Len(root'.children) :
                        j # i + 1 =>
                            root'.children[j]
                                = root.children[IF j <= i THEN j ELSE j + 1]
                  /\ SameMultiset(KeysOf(root'), KeysOf(root))
                  /\ Sorted(InOrder(root'))]_vars

\* merge_children has merged two internal children of a root that keeps
\* an entry: the merged node has 2t-1 entries and 2t children.
C25_Witness ==
    /\ pc = "merged"
    /\ Len(root.entries) >= 1
    /\ \E j \in 1..Len(root.children) :
          /\ ~root.children[j].is_leaf
          /\ Len(root.children[j].entries) = 2 * Degree - 1
          /\ Len(root.children[j].children) = 2 * Degree


\* C26: for every tree that satisfies the B-Tree ordering and child-count
\* invariants and every key k, search(root, k) terminates, returns an
\* entry whose key is k if and only if k is stored in some node of the
\* tree, and leaves the tree unchanged.
C26_SearchCorrect ==
    [][\A k \in OpKeys(root) :
          SearchFor(k) =>
              LET r == search(root, k)
              IN  /\ pc' = IF Count(KeysOf(root), k) > 0
                           THEN "found" ELSE "absent"
                  /\ pc' = "found" => r.result.v.key = k
                  /\ root' = root
                  /\ btree' = btree]_vars

\* search has returned Some on a tree of three levels.
C26_Witness ==
    /\ pc = "found"
    /\ Height(root) = 2


(***************************************************************************)
(* Properties of the serialized page                                       *)
(***************************************************************************)
\* The bytes [start, start + length) of a buffer, indexed from 0.
Bytes(buf, start, length) == SubSeq(buf, start + 1, start + length)

\* The tuple of page p that carries tuple id `id`.
TupleWithId(p, id) ==
    p.data[CHOOSE j \in 1..Len(p.data) : p.data[j].tuple_id = id]

\* C27: in the buffer produced by serialize, header.offset is the byte
\* index at which the most recently appended tuple's encoding begins, and
\* for every slot (tuple_id, offset, length) the bytes
\* [offset, offset + length) are exactly the encoding of the tuple with
\* that tuple_id.
C27_SlotAddressing ==
    pc = "ok" /\ Len(page.slots) >= 1 /\ Page_serialize_ok(page) =>
        LET buf == Page_serialize(page)
            newest == Tuple_serialize(page.data[1])
        IN  /\ Bytes(buf, as_int(page.header.offset), Len(newest)) = newest
            /\ \A i \in 1..Len(page.slots) :
                  LET slot == page.slots[i]
                  IN  Bytes(buf, as_int(slot.offset), as_int(slot.length))
                        = Tuple_serialize(TupleWithId(page, slot.tuple_id))


\* C28: for a page p with n >= 1 tuples, deserialize(serialize(p)) has
\* header.last_slot = n and header.offset = p.header.offset, so an
\* append_tuple on the reloaded page assigns tuple_id n+1 and places the
\* tuple below the existing heap, exactly as it would on p.
C28_ReloadRecoversAppendState ==
    pc = "ok" /\ Len(page.data) >= 1 /\ Page_serialize_ok(page) =>
        LET r == Page_deserialize(Page_serialize(page), 0)
            n == Len(page.data)
            here == append_tuple(page, TupleData("row")).page
            there == append_tuple(r.value, TupleData("row")).page
        IN  /\ r.ok
            /\ as_int(r.value.header.last_slot) = n
            /\ r.value.header.offset = page.header.offset
            /\ there.slots[Len(there.slots)] = here.slots[Len(here.slots)]
            /\ there.data[1].tuple_id = Int32(n + 1)

\* C29: serialize on a freshly constructed page with zero tuples succeeds
\* and returns exactly 4096 bytes, and deserialize of that buffer succeeds
\* and returns a page with zero slots and zero tuples.
C29_EmptyPage ==
    pc = "ok" /\ page.slots = <<>> /\ page.data = <<>> =>
        /\ Page_serialize_ok(page)
        /\ Len(Page_serialize(page)) = 4096
        /\ LET r == Page_deserialize(Page_serialize(page), 0)
           IN  /\ r.ok
               /\ r.value.slots = <<>>
               /\ r.value.data = <<>>

\* C30: when append_tuple fails because the tuple does not fit, the page
\* is left exactly as before the call: header.last_slot, header.offset and
\* free_space are unchanged and no slot or tuple was added.
C30_FailedAppendAtomic ==
    [][\A kind \in TupleKinds :
          AppendTuple(kind) /\ pc' = "panicked" =>
              /\ page'.header.last_slot = page.header.last_slot
              /\ page'.header.offset = page.header.offset
              /\ page'.header.free_space = page.header.free_space
              /\ page'.slots = page.slots
              /\ page'.data = page.data]_vars


=============================================================================
